---- MODULE Spec2Model ----
(***************************************************************************)
(* Model of the Fast Music Remover backend (src/app.py): the POST / handler *)
(* that downloads a video with the retrieval engine, renames the merged     *)
(* file, runs the processing engine on it and answers with JSON.            *)
(*                                                                          *)
(* Strings are sequences of tokens.  A token is one character, or one of    *)
(* the fixed multi-character texts of the program (".webm", the success     *)
(* marker, ...) which no sequence of the one-character tokens can spell.    *)
(* File names are relative to UPLOAD_FOLDER; os.rename has its POSIX        *)
(* meaning (an existing destination file is replaced).                      *)
(***************************************************************************)
EXTENDS Naturals, Sequences, FiniteSets

VARIABLES fs,     \* UPLOAD_FOLDER: file name -> id of the run whose engine wrote the content
          req,    \* per request: position in index() and the values it holds
          namer,  \* inputs and results of the title sanitization, applied on its own
          cleaner, \* cleanup_old_files, applied on its own: its argument, the folder before
          twin    \* two runs of index() side by side: what the engines did, what was answered

vars == <<fs, req, namer, cleaner, twin>>

-----------------------------------------------------------------------------
(* Bounds *)

MaxRuns == 2       \* requests handled one after the other
MaxTitleLen == 2   \* length of the titles the sanitization is applied to on its own

-----------------------------------------------------------------------------
(* Strings *)

None == <<"<None>">>

Truthy(x) == x # None /\ x # <<>>

Whitespace == {" ", "\t", "\n"}

TitleChars == {"a", "_"} \cup Whitespace

RECURSIVE Strs(_, _)
Strs(A, n) ==
    IF n = 0 THEN {<<>>}
    ELSE LET S == Strs(A, n - 1)
         IN  S \cup {Append(s, c) : s \in {x \in S : Len(x) = n - 1}, c \in A}

Titles == Strs(TitleChars, MaxTitleLen)

\* the titles the retrieval engine reports in the runs: one without a space, one with a
\* space, and the one that differs from it in an underscore for the space
RunTitles == {<<"a">>, <<"a", " ", "a">>, <<"a", "_", "a">>}

Drop(s, n) == SubSeq(s, n + 1, Len(s))

StartsWith(s, p) == Len(s) >= Len(p) /\ SubSeq(s, 1, Len(p)) = p

\* needle in s
RECURSIVE Contains(_, _)
Contains(s, needle) ==
    IF Len(s) < Len(needle) THEN FALSE
    ELSE StartsWith(s, needle) \/ Contains(Tail(s), needle)

\* s.replace(old, new) for a one-character old
RECURSIVE Replace(_, _, _)
Replace(s, old, new) ==
    IF s = <<>> THEN <<>>
    ELSE (IF Head(s) = old THEN new ELSE <<Head(s)>>) \o Replace(Tail(s), old, new)

\* s.split(sep): the pieces between the non-overlapping occurrences of sep, left to right
RECURSIVE SplitFrom(_, _, _)
SplitFrom(s, sep, cur) ==
    IF s = <<>> THEN <<cur>>
    ELSE IF StartsWith(s, sep) THEN <<cur>> \o SplitFrom(Drop(s, Len(sep)), sep, <<>>)
    ELSE SplitFrom(Tail(s), sep, Append(cur, Head(s)))

Split(s, sep) == SplitFrom(s, sep, <<>>)

\* s.splitlines(): split at the line ends, no empty last line after a final line end
SplitLines(s) ==
    LET parts == Split(s, <<"\n">>)
    IN  IF parts[Len(parts)] = <<>> THEN SubSeq(parts, 1, Len(parts) - 1) ELSE parts

RECURSIVE LStrip(_)
LStrip(s) == IF s # <<>> /\ Head(s) \in Whitespace THEN LStrip(Tail(s)) ELSE s

RECURSIVE RStrip(_)
RStrip(s) ==
    IF s # <<>> /\ s[Len(s)] \in Whitespace THEN RStrip(SubSeq(s, 1, Len(s) - 1)) ELSE s

\* s.strip()
Strip(s) == RStrip(LStrip(s))

\* os.path.basename(p): what follows the last "/"
basename(p) == LET parts == Split(p, <<"/">>) IN parts[Len(parts)]

-----------------------------------------------------------------------------
(* Paths and file system *)

Reqs == 1..MaxRuns

\* os.path.abspath(app.config['UPLOAD_FOLDER']) followed by the path separator
AbsUploadFolder == <<"/", "cwd", "/", "uploads", "/">>

\* s.replace(old, new, 1): the first occurrence only
RECURSIVE ReplaceFirst(_, _, _)
ReplaceFirst(s, old, new) ==
    IF s = <<>> THEN <<>>
    ELSE IF Head(s) = old THEN new \o Tail(s)
    ELSE <<Head(s)>> \o ReplaceFirst(Tail(s), old, new)

\* only the first space replaced
sanitize_FirstOnly(title) == ReplaceFirst(title, " ", <<"_">>)

\* re.sub(' +', '_', s): a run of spaces gives one underscore
RECURSIVE CollapseSpaces(_)
CollapseSpaces(s) ==
    IF s = <<>> THEN <<>>
    ELSE IF Head(s) # " " THEN <<Head(s)>> \o CollapseSpaces(Tail(s))
    ELSE IF Tail(s) # <<>> /\ Head(Tail(s)) = " " THEN CollapseSpaces(Tail(s))
    ELSE <<"_">> \o CollapseSpaces(Tail(s))

\* one underscore for each run of spaces
sanitize_CollapseRuns(title) == CollapseSpaces(title)

\* base_title.replace(' ', '_')
sanitize(title) == Replace(title, " ", <<"_">>)

original_video_file(title) == title \o <<".webm">>

\* one name for the source file of every request
renamed_video_file_Fixed(title) == <<"video", ".webm">>

renamed_video_file(title) == sanitize(title) \o <<".webm">>

EmptyDir == [p \in {} |-> 0]

Exists(f, p) == p \in DOMAIN f

WriteFile(f, p, c) == [q \in DOMAIN f \cup {p} |-> IF q = p THEN c ELSE f[q]]

\* a copy in place of the rename: the source stays
RenameFile_Copy(f, a, b) == [q \in DOMAIN f \cup {b} |-> IF q = b THEN f[a] ELSE f[q]]

\* os.rename(a, b) of an existing a: b is replaced when it exists
RenameFile(f, a, b) ==
    IF a = b THEN f
    ELSE [q \in (DOMAIN f \ {a}) \cup {b} |-> IF q = b THEN f[a] ELSE f[q]]

-----------------------------------------------------------------------------
(* Responses of index() *)

NoResponse == [kind |-> "none", status |-> "", message |-> "", video_url |-> None]

\* render_template('index.html')
Page == [kind |-> "html", status |-> "", message |-> "", video_url |-> None]

\* request.form['url'] on a form without the field: werkzeug's BadRequestKeyError
BadRequest == [kind |-> "400", status |-> "", message |-> "", video_url |-> None]

JsonError(m) == [kind |-> "json", status |-> "error", message |-> m, video_url |-> None]

JsonCompleted(u) == [kind |-> "json", status |-> "completed", message |-> "", video_url |-> u]

DownloadFailed == JsonError("Failed to download video.")

ProcessFailed == JsonError("Failed to process video.")

\* werkzeug's NotFound, raised by send_from_directory
NotFound == [kind |-> "404", status |-> "", message |-> "", video_url |-> None]

\* the response that carries the content of a file
FileSent == [kind |-> "file", status |-> "", message |-> "", video_url |-> None]

\* a missing file is answered with some file of the folder
send_from_directory_AnyFile(f, filename) ==
    IF Exists(f, filename) THEN [response |-> FileSent, sent |-> f[filename]]
    ELSE IF DOMAIN f # {} THEN [response |-> FileSent, sent |-> f[CHOOSE p \in DOMAIN f : TRUE]]
    ELSE [response |-> NotFound, sent |-> 0]

\* send_from_directory(app.config['UPLOAD_FOLDER'], filename): the file of that name, read only
send_from_directory(f, filename) ==
    IF Exists(f, filename) THEN [response |-> FileSent, sent |-> f[filename]]
    ELSE [response |-> NotFound, sent |-> 0]

\* url_for('serve_video', filename=...)
url_for_serve_video(filename) == <<"/video/">> \o filename

-----------------------------------------------------------------------------
(* process_video_with_cpp: reading the engine's result *)

Marker == "Video processed successfully"

RECURSIVE FirstMarkerLine(_)
FirstMarkerLine(lines) ==
    IF lines = <<>> THEN None
    ELSE IF Contains(Head(lines), <<Marker>>) THEN Head(lines)
    ELSE FirstMarkerLine(Tail(lines))

\* the loop over result.stdout.splitlines(); an IndexError of [1] is caught and gives None
ParseStdout(stdout) ==
    LET lines == SplitLines(stdout)
        hit == \E i \in 1..Len(lines) : Contains(lines[i], <<Marker>>)
        parts == Split(FirstMarkerLine(lines), <<":", " ">>)
    IN  IF ~hit THEN None
        ELSE IF Len(parts) < 2 THEN None
        ELSE Strip(parts[2])

\* without the test of result.returncode
process_video_with_cpp_NoExitTest(started, returncode, stdout) ==
    IF ~started THEN None ELSE ParseStdout(stdout)

process_video_with_cpp(started, returncode, stdout) ==
    IF ~started THEN None
    ELSE IF returncode # 0 THEN None
    ELSE ParseStdout(stdout)

\* without the else branch: a failed processing falls through to render_template
ProcessedResponse_FallThrough(processed_video_path) ==
    IF Truthy(processed_video_path)
    THEN JsonCompleted(url_for_serve_video(basename(processed_video_path)))
    ELSE Page

\* the end of index(): the answer for a processed_video_path
ProcessedResponse(processed_video_path) ==
    IF Truthy(processed_video_path)
    THEN JsonCompleted(url_for_serve_video(basename(processed_video_path)))
    ELSE ProcessFailed

-----------------------------------------------------------------------------
(* What the two engines may do *)

Urls == {<<>>, <<"u">>}

\* the container of the merged file the retrieval engine leaves
Containers == {".webm", ".mkv"}

ReturnCodes == {0, 1}

ProcessorDirs == {<<>>, <<"/", "tmp", "/">>, AbsUploadFolder}

ProcessorNames(base) == {<<>>, <<"o">>, <<"o", ":", " ", "o">>, base \o <<"_processed_video.mp4">>}

ReportedPaths(base) == {d \o n : d \in ProcessorDirs, n \in ProcessorNames(base)}

MarkerLines(base) ==
    {pre \o <<Marker>> \o sep \o p :
        pre \in {<<>>, <<"o", ":", " ">>}, sep \in {<<>>, <<":", " ">>}, p \in ReportedPaths(base)}

OtherLines == {<<>>, <<"o">>}

Stdouts(base) ==
    {<<>>}
    \cup {l \o <<"\n">> : l \in OtherLines \cup MarkerLines(base)}
    \cup {<<"o", "\n">> \o l \o <<"\n">> : l \in MarkerLines(base)}

\* the files the processing engine leaves for a source <base>.webm
EngineFiles(base) == {base \o <<"_isolated_audio.wav">>, base \o <<"_processed_video.mp4">>}

\* the three paths of cleanup_old_files(base_filename)
CanonicalPaths(base) ==
    {base \o <<".webm">>, base \o <<"_isolated_audio.wav">>, base \o <<"_processed_video.mp4">>}

\* os.remove(p) on a folder f: FileNotFoundError when p is absent; nothing runs after an error
os_remove(st, p) ==
    IF st.error THEN st
    ELSE IF Exists(st.fs, p)
    THEN [fs |-> [q \in DOMAIN st.fs \ {p} |-> st.fs[q]], error |-> FALSE]
    ELSE [fs |-> st.fs, error |-> TRUE]

\* without the test of os.path.exists
RemoveIfExists_NoTest(st, p) == os_remove(st, p)

\* if os.path.exists(file_path): os.remove(file_path)
RemoveIfExists(st, p) == IF Exists(st.fs, p) THEN os_remove(st, p) ELSE st

\* cleanup_old_files(base_filename): the loop over the three paths, in the order of the list
cleanup_old_files(f, base_filename) ==
    LET st0 == [fs |-> f, error |-> FALSE]
        st1 == RemoveIfExists(st0, base_filename \o <<".webm">>)
        st2 == RemoveIfExists(st1, base_filename \o <<"_isolated_audio.wav">>)
    IN  RemoveIfExists(st2, base_filename \o <<"_processed_video.mp4">>)

RECURSIVE WriteAll(_, _, _)
WriteAll(f, ps, c) ==
    IF ps = {} THEN f
    ELSE LET p == CHOOSE x \in ps : TRUE IN WriteAll(WriteFile(f, p, c), ps \ {p}, c)

-----------------------------------------------------------------------------
(* Requests *)

Blank ==
    [pc |-> "idle", method |-> "", has_url |-> FALSE, url |-> None,
     fetch |-> "", title |-> None, merged |-> "", content |-> 0, video_path |-> None,
     fetch_calls |-> 0, proc_calls |-> 0,
     started |-> FALSE, returncode |-> 0, stdout |-> None, processed_video_path |-> None,
     filename |-> None, sent |-> 0,
     ext |-> "", read |-> 0, written |-> {},
     response |-> NoResponse]

\* no pair of runs
TwinIdle ==
    [phase |-> "off", x |-> <<>>, y |-> <<>>, rx |-> NoResponse, ry |-> NoResponse,
     lx |-> <<>>, ly |-> <<>>]

\* cleanup_old_files not called
CleanerIdle ==
    [calls |-> 0, base_filename |-> None, original |-> EmptyDir, before |-> EmptyDir,
     error |-> FALSE]

NamerIdle == [phase |-> "off", t1 |-> <<>>, t2 |-> <<>>, b1 |-> <<>>, b2 |-> <<>>, again |-> <<>>]

Init ==
    /\ fs = EmptyDir
    /\ req = [r \in Reqs |-> Blank]
    /\ namer = NamerIdle
    /\ cleaner = CleanerIdle
    /\ twin = TwinIdle

\* index() up to the call of download_youtube_video
IndexEntry(method, has_url, url) ==
    LET q == [Blank EXCEPT !.method = method, !.has_url = has_url, !.url = url]
    IN  IF method # "POST" THEN [q EXCEPT !.pc = "responded", !.response = Page]
        ELSE IF ~has_url THEN [q EXCEPT !.pc = "responded", !.response = BadRequest]
        ELSE IF url = <<>> THEN [q EXCEPT !.pc = "responded", !.response = Page]
        ELSE [q EXCEPT !.pc = "download"]

\* a request reaches index(); requests are handled one after the other
Index(r) ==
    /\ req[r].pc = "idle"
    /\ \A q \in Reqs : q < r => req[q].pc = "done"
    /\ \E method \in {"GET", "POST"}, has_url \in BOOLEAN, url \in Urls \cup {None} :
         /\ has_url <=> url # None
         /\ method = "GET" => ~has_url
         /\ req' = [req EXCEPT ![r] = IndexEntry(method, has_url, url)]
    /\ UNCHANGED <<fs, namer, cleaner, twin>>

\* without the test of video_path
AfterDownload_NoTest(q, video_path) == [q EXCEPT !.video_path = video_path, !.pc = "process"]

\* a failed download is tried again
AfterDownload_Retry(q, video_path) ==
    IF ~Truthy(video_path)
    THEN [q EXCEPT !.video_path = video_path, !.pc = "download"]
    ELSE [q EXCEPT !.video_path = video_path, !.pc = "process"]

\* index() after download_youtube_video returned video_path
AfterDownload(q, video_path) ==
    IF ~Truthy(video_path)
    THEN [q EXCEPT !.video_path = video_path, !.pc = "responded", !.response = DownloadFailed]
    ELSE [q EXCEPT !.video_path = video_path, !.pc = "process"]

\* download_youtube_video(url) and the test of its result
Download(r) ==
    /\ req[r].pc = "download"
    /\ LET q == [req[r] EXCEPT !.fetch_calls = @ + 1]
       IN  \/ \* extract_info raises, or the info has no title
              /\ req' = [req EXCEPT ![r] = AfterDownload([q EXCEPT !.fetch = "raised"], None)]
              /\ fs' = fs
           \/ \E title \in RunTitles, ext \in Containers, keep \in BOOLEAN :
                LET out == title \o <<ext>>
                    \* the engine does not download again a file that is already there
                    fs1 == IF keep /\ Exists(fs, out) THEN fs ELSE WriteFile(fs, out, r)
                    orig == original_video_file(title)
                    found == Exists(fs1, orig)
                    q1 == [q EXCEPT !.fetch = "returned", !.title = title,
                                    !.merged = IF found THEN "found" ELSE "missing",
                                    !.content = IF found THEN fs1[orig] ELSE 0]
                IN  /\ keep => Exists(fs, out)
                    /\ fs' = IF found THEN RenameFile(fs1, orig, renamed_video_file(title)) ELSE fs1
                    /\ req' = [req EXCEPT ![r] =
                                  AfterDownload(q1, AbsUploadFolder \o renamed_video_file(title))]
    /\ UNCHANGED <<namer, cleaner, twin>>

\* process_video_with_cpp(video_path) and the answer of index()
Process(r) ==
    /\ req[r].pc = "process"
    /\ LET q == [req[r] EXCEPT !.proc_calls = @ + 1]
           source == basename(req[r].video_path)
           base == SubSeq(source, 1, Len(source) - 1)
       IN  \/ \* subprocess.run raises: the executable cannot be started
              LET path == process_video_with_cpp(FALSE, 0, None)
              IN  /\ req' = [req EXCEPT ![r] =
                                [q EXCEPT !.processed_video_path = path, !.pc = "responded",
                                          !.response = ProcessedResponse(path)]]
                  /\ fs' = fs
           \/ \E returncode \in ReturnCodes, stdout \in Stdouts(base),
                 written \in SUBSET EngineFiles(base) :
                LET path == process_video_with_cpp(TRUE, returncode, stdout)
                IN  /\ req' = [req EXCEPT ![r] =
                                  [q EXCEPT !.started = TRUE, !.returncode = returncode,
                                            !.stdout = stdout, !.processed_video_path = path,
                                            !.pc = "responded",
                                            !.response = ProcessedResponse(path)]]
                    /\ fs' = WriteAll(fs, written, r)
    /\ UNCHANGED <<namer, cleaner, twin>>

\* the files of the run's base name are removed as soon as the response is sent
Return_EagerCleanup(r) ==
    /\ req[r].pc = "responded"
    /\ req' = [req EXCEPT ![r] = [Blank EXCEPT !.pc = "done"]]
    /\ fs' = IF req[r].title # None
             THEN cleanup_old_files(fs, sanitize(req[r].title)).fs
             ELSE fs
    /\ UNCHANGED <<namer, cleaner, twin>>

\* index() returns: the response is sent and the values of the call are gone
Return(r) ==
    /\ req[r].pc = "responded"
    /\ req' = [req EXCEPT ![r] = [Blank EXCEPT !.pc = "done"]]
    /\ UNCHANGED <<fs, namer, cleaner, twin>>

\* the names asked of /video/<filename>: a source file, a processed file, a name never written
ServeNames == {<<"a", ".webm">>, <<"a", "_processed_video.mp4">>, <<"o">>}

\* serve_video(filename); requests are handled one after the other
ServeVideo(r) ==
    /\ req[r].pc = "idle"
    /\ \A q \in Reqs : q < r => req[q].pc = "done"
    /\ \E filename \in ServeNames :
         LET out == send_from_directory(fs, filename)
         IN  req' = [req EXCEPT ![r] =
                        [Blank EXCEPT !.method = "GET", !.filename = filename,
                                      !.sent = out.sent, !.response = out.response,
                                      !.pc = "responded"]]
    /\ UNCHANGED <<fs, namer, cleaner, twin>>

Next ==
    \E r \in Reqs : Index(r) \/ Download(r) \/ Process(r) \/ Return(r) \/ ServeVideo(r)

Spec == Init /\ [][Next]_vars

-----------------------------------------------------------------------------
(* Properties of a run *)

Lines(r) == SplitLines(req[r].stdout)

\* the fetch of run r returned a path
Fetched(r) == req[r].fetch = "returned" /\ Truthy(req[r].video_path)

\* the processing engine ran in run r and exited
EngineExited(r) == req[r].proc_calls > 0 /\ req[r].started

\* C1: when the fetch returns without raising and <title>.webm does not exist afterwards,
\* the processing engine is never invoked and the run ends with "Failed to download video."
C1_MissingMergedFileFailsDownload ==
    \A r \in Reqs :
        req[r].fetch = "returned" /\ req[r].merged = "missing" =>
            /\ req[r].proc_calls = 0
            /\ req[r].pc = "responded" => req[r].response = DownloadFailed

\* C2: when a run that resolved a title has answered, every file at the three canonical
\* paths of its base name has content this run wrote: none is left from an earlier run.
\* (Content of an earlier run at a path of this base name was put there by a run that
\* resolved the same base name.)
C2_NoArtifactOfEarlierRunRemains ==
    \A r \in Reqs :
        req[r].pc = "responded" /\ req[r].fetch = "returned" =>
            \A p \in CanonicalPaths(sanitize(req[r].title)) : Exists(fs, p) => fs[p] = r

RECURSIVE AfterFirst(_, _)
AfterFirst(s, needle) ==
    IF Len(s) < Len(needle) THEN <<>>
    ELSE IF StartsWith(s, needle) THEN Drop(s, Len(needle))
    ELSE AfterFirst(Tail(s), needle)

\* C3: after a fetch that returned a path, when the engine exits 0 and a line of its
\* output is `Video processed successfully: P` (P not empty), the answer is Completed with
\* the last component of P, P being all the text after the marker's colon, trimmed.
C3_CompletedWithWholeReportedPath ==
    \A r \in Reqs :
        req[r].pc = "responded" /\ Fetched(r) /\ EngineExited(r) /\ req[r].returncode = 0 =>
            \A i \in 1..Len(Lines(r)) :
                LET P == Strip(AfterFirst(Lines(r)[i], <<Marker, ":">>))
                IN  Contains(Lines(r)[i], <<Marker, ":", " ">>) /\ P # <<>> =>
                        req[r].response = JsonCompleted(url_for_serve_video(basename(P)))

ProcessingFailure(r) ==
    \/ req[r].proc_calls > 0 /\ ~req[r].started
    \/ EngineExited(r) /\ req[r].returncode # 0
    \/ EngineExited(r) /\ \A i \in 1..Len(Lines(r)) : ~Contains(Lines(r)[i], <<Marker>>)

C5_RaiseFailsDownloadAndProcessFollowsFetch ==
    \A r \in Reqs :
        /\ req[r].fetch = "raised" =>
               req[r].pc = "responded" /\ req[r].response = DownloadFailed /\ req[r].proc_calls = 0
        /\ req[r].proc_calls > 0 => Fetched(r) /\ req[r].fetch_calls = 1

\* a run whose retrieval engine raised was answered
C5_Witness ==
    \E r \in Reqs :
        req[r].fetch = "raised" /\ req[r].fetch_calls = 1 /\ req[r].response = DownloadFailed

\* the name the claims give to the fetched file: every space of the title an underscore
ExpectedName(title) ==
    [i \in 1..Len(title) |-> IF title[i] = " " THEN "_" ELSE title[i]] \o <<".webm">>

\* C9: when the fetch returns, its path is <workdir>/<title with "_" for " ">.webm, and the
\* file found under the original title is at that path and, where the names differ, no
\* longer under the original title.
C9_FetchReturnsRenamedFile ==
    \A r \in Reqs :
        req[r].pc = "process" =>
            /\ req[r].video_path = AbsUploadFolder \o ExpectedName(req[r].title)
            /\ req[r].merged = "found" =>
                 /\ Exists(fs, ExpectedName(req[r].title))
                 /\ fs[ExpectedName(req[r].title)] = req[r].content
                 /\ req[r].title \o <<".webm">> # ExpectedName(req[r].title) =>
                        ~Exists(fs, req[r].title \o <<".webm">>)

\* the fetch of a title with a space returned after renaming the file this run downloaded
C9_Witness ==
    \E r \in Reqs :
        /\ req[r].pc = "process" /\ req[r].merged = "found" /\ req[r].title = <<"a", " ", "a">>
        /\ req[r].content = r
        /\ Exists(fs, <<"a", "_", "a", ".webm">>) /\ ~Exists(fs, <<"a", " ", "a", ".webm">>)

IsJsonOutcome(resp) ==
    /\ resp.kind = "json"
    /\ \/ resp.status = "completed" /\ resp.video_url # None
       \/ resp.status = "error" /\ resp.message # "" /\ resp.video_url = None

\* C10 as stated: every POST with a url field, whatever its value, runs the pipeline and
\* is answered with one of the two JSON outcomes.
C10_EveryPostWithUrlGetsJson ==
    \A r \in Reqs :
        req[r].pc = "responded" /\ req[r].method = "POST" /\ req[r].has_url =>
            req[r].fetch_calls = 1 /\ IsJsonOutcome(req[r].response)

\* C10 amended: every POST with a non-empty url field runs the pipeline and is answered
\* with one of the two JSON outcomes.
C10_PostWithNonEmptyUrlGetsJson ==
    \A r \in Reqs :
        req[r].pc = "responded" /\ req[r].method = "POST" /\ req[r].has_url
            /\ req[r].url # <<>> =>
                req[r].fetch_calls = 1 /\ IsJsonOutcome(req[r].response)

\* a POST with a url was answered after its processing failed
C10_Witness ==
    \E r \in Reqs :
        /\ req[r].pc = "responded" /\ req[r].method = "POST" /\ req[r].url = <<"u">>
        /\ req[r].proc_calls = 1 /\ req[r].response = ProcessFailed

-----------------------------------------------------------------------------
(* The sanitization of titles, applied on its own *)

InitNamer ==
    /\ fs = EmptyDir
    /\ req = [r \in Reqs |-> Blank]
    /\ namer \in {[NamerIdle EXCEPT !.phase = "input", !.t1 = x, !.t2 = y] :
                    x \in Titles, y \in Titles}
    /\ cleaner = CleanerIdle
    /\ twin = TwinIdle

\* base_title.replace(' ', '_') of two titles
ApplySanitize ==
    /\ namer.phase = "input"
    /\ namer' = [namer EXCEPT !.phase = "once",
                              !.b1 = sanitize(namer.t1), !.b2 = sanitize(namer.t2)]
    /\ UNCHANGED <<fs, req, cleaner, twin>>

\* the same replacement on the base name of the first title
ReapplySanitize ==
    /\ namer.phase = "once"
    /\ namer' = [namer EXCEPT !.phase = "twice", !.again = sanitize(namer.b1)]
    /\ UNCHANGED <<fs, req, cleaner, twin>>

NextNamer == ApplySanitize \/ ReapplySanitize

SpecNamer == InitNamer /\ [][NextNamer]_vars

Has(s, chars) == \E i \in 1..Len(s) : s[i] \in chars

\* C6 as stated: the base name derived from a title holds no whitespace character
\* (space, tab, newline).
C6_BaseNameHasNoWhitespace == namer.phase # "input" => ~Has(namer.b1, Whitespace)

\* C6 amended: the base name derived from a title holds no space character.
C6_BaseNameHasNoSpace == namer.phase # "input" => ~Has(namer.b1, {" "})

\* a title with a space and a tab was sanitized: the space is gone, the tab is kept
C6_Witness ==
    namer.phase = "once" /\ namer.t1 = <<" ", "\t">> /\ namer.b1 = <<"_", "\t">>

\* C7 as stated: distinct titles have distinct base names.
C7_DistinctTitlesDistinctBaseNames ==
    namer.phase # "input" /\ namer.t1 # namer.t2 => namer.b1 # namer.b2

\* C7 amended: distinct titles that hold no underscore have distinct base names.
C7_DistinctUnderscoreFreeTitlesDistinctBaseNames ==
    namer.phase # "input" /\ namer.t1 # namer.t2
        /\ ~Has(namer.t1, {"_"}) /\ ~Has(namer.t2, {"_"}) => namer.b1 # namer.b2

\* two distinct titles with spaces and no underscore were sanitized
C7_Witness ==
    /\ namer.phase = "once" /\ namer.t1 = <<" ", " ">> /\ namer.t2 = <<" ">>
    /\ namer.b1 = <<"_", "_">> /\ namer.b2 = <<"_">>

\* C8: sanitizing a base name again gives the same base name.
C8_SanitizeIdempotent == namer.phase = "twice" => namer.again = namer.b1

\* the base name of a title with two spaces was sanitized again
C8_Witness ==
    namer.phase = "twice" /\ namer.t1 = <<" ", " ">> /\ namer.again = <<"_", "_">>

-----------------------------------------------------------------------------
(* No retries *)

Answered(r) == req[r].pc \in {"responded", "done"}

\* C11: in one request the retrieval engine and the processing engine are each invoked at
\* most once, and once the request is answered neither is invoked again for it.
C11_NoRetry ==
    [][\A r \in Reqs :
          /\ req'[r].fetch_calls <= 1 /\ req'[r].proc_calls <= 1
          /\ Answered(r) =>
               /\ req'[r].pc \in {"responded", "done"}
               /\ req'[r].fetch_calls <= req[r].fetch_calls
               /\ req'[r].proc_calls <= req[r].proc_calls]_vars

\* a request was answered after one call of each engine
C11_Witness ==
    \E r \in Reqs :
        req[r].pc = "responded" /\ req[r].fetch_calls = 1 /\ req[r].proc_calls = 1

-----------------------------------------------------------------------------
(* Serving *)

Serving(r) == req[r].pc = "responded" /\ req[r].filename # None

\* C12: GET /video/<filename> for a name with no file in the working directory is answered
\* not-found, a name with a file is answered with that file's content, and serving leaves
\* every file as it was.
C12_ServeMissingIsNotFoundAndReadsOnly ==
    [][\A r \in Reqs :
          (req[r].pc = "idle" /\ req'[r].filename # None) =>
              /\ fs' = fs
              /\ ~Exists(fs, req'[r].filename) =>
                     req'[r].response = NotFound /\ req'[r].sent = 0
              /\ Exists(fs, req'[r].filename) =>
                     req'[r].response = FileSent /\ req'[r].sent = fs[req'[r].filename]]_vars

\* a missing name was asked for while the working directory holds another file
C12_Witness ==
    \E r \in Reqs :
        /\ Serving(r) /\ req[r].response = NotFound
        /\ ~Exists(fs, req[r].filename) /\ DOMAIN fs # {}

-----------------------------------------------------------------------------
(* The source file handed to the processing engine *)

\* C13: whenever the processing engine is about to be invoked, a file exists at the path
\* passed to it and its content was written by the fetch of the same request.
C13_EngineSourceWrittenBySameRun ==
    \A r \in Reqs :
        req[r].pc = "process" =>
            LET source == basename(req[r].video_path)
            IN  Exists(fs, source) /\ fs[source] = r


-----------------------------------------------------------------------------
(* Serving the file of a completed run *)

\* the engine's output is the one line `Video processed successfully: P`, read back whole
WellReported(r) ==
    /\ EngineExited(r) /\ Truthy(req[r].processed_video_path)
    /\ req[r].stdout = <<Marker, ":", " ">> \o req[r].processed_video_path \o <<"\n">>

\* a reported path inside the working directory names a file this run's engine wrote
WroteReported(r) ==
    LET P == req[r].processed_video_path
    IN  StartsWith(P, AbsUploadFolder) => Exists(fs, basename(P)) /\ fs[basename(P)] = r

\* C16: when a run ends Completed{f} for a path the engine reported and wrote, GET /video/f
\* right after it is answered with the processed file of that run.
C16_CompletedFileIsServed ==
    \A r \in Reqs :
        (/\ req[r].pc = "responded" /\ req[r].response.status = "completed"
         /\ WellReported(r) /\ WroteReported(r)) =>
            send_from_directory(fs, basename(req[r].processed_video_path))
                = [response |-> FileSent, sent |-> r]

-----------------------------------------------------------------------------
(* The source file after the fetch *)

SourcePaths == {renamed_video_file(t) : t \in RunTitles}

\* a fetch that returns a path whose base name gives the source path p
FetchOfSameBaseName(p) ==
    \E r \in Reqs :
        /\ req[r].pc = "download" /\ req'[r].fetch = "returned"
        /\ renamed_video_file(req'[r].title) = p

\* C17: after a fetch that found its merged file, the file at <base>.webm is there with the
\* content the fetch saw while the run is processed and answered, and a file at a source
\* path changes or goes away only by the fetch of a request with the same base name.
C17_SourceKeptUntilSameBaseName ==
    [][/\ \A r \in Reqs :
            (req'[r].merged = "found" /\ req'[r].pc \in {"process", "responded"}) =>
                LET source == renamed_video_file(req'[r].title)
                IN  Exists(fs', source) /\ fs'[source] = req'[r].content
       /\ \A p \in SourcePaths :
            Exists(fs, p) =>
                \/ Exists(fs', p) /\ fs'[p] = fs[p]
                \/ FetchOfSameBaseName(p)]_vars

\* the source file of the first request is still there, unchanged, when a second request
\* with another base name has been answered
C17_Witness ==
    /\ req[1].pc = "done" /\ Exists(fs, <<"a", ".webm">>) /\ fs[<<"a", ".webm">>] = 1
    /\ req[2].pc = "responded" /\ req[2].merged = "found"
    /\ req[2].title = <<"a", "_", "a">> /\ req[2].proc_calls = 1

-----------------------------------------------------------------------------
(* cleanup_old_files, applied to a folder on its own *)

CleanBases == {<<"a">>, <<"a", "_", "a">>}

\* the files of the folder: the three of each base name and one that belongs to none
CleanPaths == UNION {CanonicalPaths(b) : b \in CleanBases} \cup {<<"o">>}

InitCleanup ==
    /\ fs \in UNION {[D -> {1}] : D \in SUBSET CleanPaths}
    /\ req = [r \in Reqs |-> Blank]
    /\ namer = NamerIdle
    /\ cleaner = CleanerIdle
    /\ twin = TwinIdle

\* cleanup_old_files(base_filename), and the same call once more
Cleanup ==
    /\ cleaner.calls < 2
    /\ \E b \in CleanBases :
         LET st == cleanup_old_files(fs, b)
         IN  /\ cleaner.calls = 1 => b = cleaner.base_filename
             /\ fs' = st.fs
             /\ cleaner' = [calls |-> cleaner.calls + 1, base_filename |-> b,
                            original |-> IF cleaner.calls = 0 THEN fs ELSE cleaner.original,
                            before |-> fs, error |-> cleaner.error \/ st.error]
    /\ UNCHANGED <<req, namer, twin>>

NextCleanup == Cleanup

SpecCleanup == InitCleanup /\ [][NextCleanup]_vars

\* C19: cleanup_old_files(b) ends without error, leaves none of the three canonical files
\* of b, leaves every other file as it was, and a second call changes nothing.
C19_CleanupRemovesTheThreeOnly ==
    cleaner.calls > 0 =>
        /\ ~cleaner.error
        /\ \A p \in CanonicalPaths(cleaner.base_filename) : ~Exists(fs, p)
        /\ \A p \in CleanPaths \ CanonicalPaths(cleaner.base_filename) :
               /\ Exists(fs, p) <=> Exists(cleaner.original, p)
               /\ Exists(fs, p) => fs[p] = cleaner.original[p]
        /\ cleaner.calls = 2 => fs = cleaner.before

\* two calls ran on a folder where the first found one canonical file and missed another,
\* next to files of the other base name and a stray file
C19_Witness ==
    /\ cleaner.calls = 2 /\ cleaner.base_filename = <<"a">>
    /\ Exists(cleaner.original, <<"a", ".webm">>)
    /\ ~Exists(cleaner.original, <<"a", "_isolated_audio.wav">>)
    /\ Exists(fs, <<"a", "_", "a", ".webm">>) /\ Exists(fs, <<"o">>)


-----------------------------------------------------------------------------
(* Two runs of index() side by side, with the diagnostic texts of the engines *)

\* texts of exceptions and of the captured standard error
DiagTexts == {"e1", "e2"}

TwinReturnCodes == {0, 1, 2}

TwinPath == AbsUploadFolder \o renamed_video_file(<<"a">>)

TwinStdouts ==
    {<<"o", "\n">>, <<Marker, ":", " ", "/", "tmp", "/", "o", "\n">>}

\* what the two engines do in one run
TwinRuns ==
    [raised : BOOLEAN, exc : DiagTexts, started : BOOLEAN, launch_exc : DiagTexts,
     returncode : TwinReturnCodes, stdout : TwinStdouts, stderr : DiagTexts]

\* download_youtube_video(url): the value returned and the text of logging.error
download_youtube_video_run(run) ==
    IF run.raised
    THEN [path |-> None, log |-> <<"Error downloading video: ", run.exc>>]
    ELSE [path |-> TwinPath, log |-> <<>>]

\* process_video_with_cpp(video_path): the value returned and the text of logging.error
process_video_with_cpp_run(run) ==
    [path |-> process_video_with_cpp(run.started, run.returncode, run.stdout),
     log |-> IF ~run.started THEN <<"Error running C++ binary: ", run.launch_exc>>
             ELSE IF run.returncode # 0 THEN <<"Error processing video: ", run.stderr>>
             ELSE <<>>]

\* the logged text of a failure is sent as the message
index_run_WithDetail(run) ==
    LET d == download_youtube_video_run(run)
        p == process_video_with_cpp_run(run)
    IN  IF ~Truthy(d.path) THEN [response |-> JsonError(d.log[2]), log |-> d.log]
        ELSE IF ~Truthy(p.path) /\ p.log # <<>>
        THEN [response |-> JsonError(p.log[2]), log |-> p.log]
        ELSE [response |-> ProcessedResponse(p.path), log |-> p.log]

\* index() for a POST with a url: the response and what was logged
index_run(run) ==
    LET d == download_youtube_video_run(run)
        q == AfterDownload(Blank, d.path)
        p == process_video_with_cpp_run(run)
    IN  IF q.pc = "responded" THEN [response |-> q.response, log |-> d.log]
        ELSE [response |-> ProcessedResponse(p.path), log |-> p.log]

InitTwin ==
    /\ fs = EmptyDir
    /\ req = [r \in Reqs |-> Blank]
    /\ namer = NamerIdle
    /\ cleaner = CleanerIdle
    /\ twin \in {[TwinIdle EXCEPT !.phase = "input", !.x = x, !.y = y] :
                    x \in TwinRuns, y \in TwinRuns}

\* both runs are answered
RunBoth ==
    /\ twin.phase = "input"
    /\ twin' = [twin EXCEPT !.phase = "answered",
                            !.rx = index_run(twin.x).response, !.lx = index_run(twin.x).log,
                            !.ry = index_run(twin.y).response, !.ly = index_run(twin.y).log]
    /\ UNCHANGED <<fs, req, namer, cleaner>>

NextTwin == RunBoth

SpecTwin == InitTwin /\ [][NextTwin]_vars

\* the two runs differ at most in the exception texts, the standard error text and the
\* value of a non-zero exit code
SameButDiagnostics(x, y) ==
    /\ x.raised = y.raised /\ x.started = y.started /\ x.stdout = y.stdout
    /\ (x.returncode = 0) <=> (y.returncode = 0)

\* C18: the response of a failed run is one of the two fixed messages, and two runs that
\* differ only in the standard error text, the non-zero exit code value or the text of a
\* raised exception get the same response.
C18_FailureResponseHidesDiagnostics ==
    twin.phase = "answered" =>
        /\ twin.rx.status # "completed" => twin.rx \in {DownloadFailed, ProcessFailed}
        /\ SameButDiagnostics(twin.x, twin.y) => twin.rx = twin.ry

\* two runs failed in processing with different exit codes and different standard error:
\* the logs differ, the responses do not
C18_Witness ==
    /\ twin.phase = "answered" /\ SameButDiagnostics(twin.x, twin.y)
    /\ ~twin.x.raised /\ twin.x.started
    /\ twin.x.returncode = 1 /\ twin.y.returncode = 2 /\ twin.x.stderr # twin.y.stderr
    /\ twin.lx # twin.ly
    /\ twin.rx = ProcessFailed /\ twin.ry = ProcessFailed


-----------------------------------------------------------------------------
(* Two requests handled at the same time: the steps of index() interleave *)

ConcReqs == {1, 2}

\* the outputs of the processing engine: no marker, or the marker with its output file
ConcStdouts(base) ==
    {<<"o", "\n">>,
     <<Marker, ":", " ">> \o AbsUploadFolder \o base \o <<"_processed_video.mp4">> \o <<"\n">>}

\* a POST with a url reaches index(), whatever the other request is doing
ConcIndex(r) ==
    /\ req[r].pc = "idle"
    /\ req' = [req EXCEPT ![r] = IndexEntry("POST", TRUE, <<"u">>)]
    /\ UNCHANGED <<fs, namer, cleaner, twin>>

\* the fetch waits until no other request is between its fetch and its answer
ConcFetch_Locked(r) ==
    /\ req[r].pc = "download"
    /\ \A q \in ConcReqs \ {r} : req[q].pc \in {"idle", "download", "responded", "done"}
    /\ \E title \in RunTitles, ext \in Containers :
         /\ fs' = WriteFile(fs, title \o <<ext>>, r)
         /\ req' = [req EXCEPT ![r] =
                       [req[r] EXCEPT !.fetch_calls = @ + 1, !.title = title, !.ext = ext,
                                      !.pc = "check"]]
    /\ UNCHANGED <<namer, cleaner, twin>>

\* ydl.extract_info(url, download=True): the engine leaves <title>.<ext>, or raises
ConcFetch(r) ==
    /\ req[r].pc = "download"
    /\ LET q == [req[r] EXCEPT !.fetch_calls = @ + 1]
       IN  \/ /\ req' = [req EXCEPT ![r] = AfterDownload([q EXCEPT !.fetch = "raised"], None)]
              /\ fs' = fs
           \/ \E title \in RunTitles, ext \in Containers, keep \in BOOLEAN :
                LET out == title \o <<ext>>
                IN  /\ keep => Exists(fs, out)
                    /\ fs' = IF keep THEN fs ELSE WriteFile(fs, out, r)
                    /\ req' = [req EXCEPT ![r] =
                                  [q EXCEPT !.title = title, !.ext = ext, !.pc = "check"]]
    /\ UNCHANGED <<namer, cleaner, twin>>

\* os.path.exists(original_video_file)
ConcCheck(r) ==
    /\ req[r].pc = "check"
    /\ LET orig == original_video_file(req[r].title)
           path == AbsUploadFolder \o renamed_video_file(req[r].title)
       IN  IF Exists(fs, orig)
           THEN req' = [req EXCEPT ![r] =
                           [req[r] EXCEPT !.merged = "found", !.content = fs[orig],
                                          !.pc = "rename"]]
           ELSE req' = [req EXCEPT ![r] =
                           AfterDownload([req[r] EXCEPT !.merged = "missing",
                                                        !.fetch = "returned"], path)]
    /\ UNCHANGED <<fs, namer, cleaner, twin>>

\* os.rename(original_video_file, renamed_video_file); FileNotFoundError is caught at line 88
ConcRename(r) ==
    /\ req[r].pc = "rename"
    /\ LET orig == original_video_file(req[r].title)
           renamed == renamed_video_file(req[r].title)
       IN  IF Exists(fs, orig)
           THEN /\ fs' = RenameFile(fs, orig, renamed)
                /\ req' = [req EXCEPT ![r] =
                              AfterDownload([req[r] EXCEPT !.fetch = "returned"],
                                            AbsUploadFolder \o renamed)]
           ELSE /\ fs' = fs
                /\ req' = [req EXCEPT ![r] =
                              AfterDownload([req[r] EXCEPT !.fetch = "raised"], None)]
    /\ UNCHANGED <<namer, cleaner, twin>>

\* process_video_with_cpp(video_path) and the answer of index(); the engine reads the file
\* that is at video_path when it runs
ConcProcess(r) ==
    /\ req[r].pc = "process"
    /\ LET source == basename(req[r].video_path)
           base == SubSeq(source, 1, Len(source) - 1)
           q == [req[r] EXCEPT !.proc_calls = @ + 1,
                               !.read = IF Exists(fs, source) THEN fs[source] ELSE 0]
       IN  \/ LET path == process_video_with_cpp(FALSE, 0, None)
              IN  /\ req' = [req EXCEPT ![r] =
                                [q EXCEPT !.processed_video_path = path, !.pc = "responded",
                                          !.response = ProcessedResponse(path)]]
                  /\ fs' = fs
           \/ \E returncode \in ReturnCodes, stdout \in ConcStdouts(base),
                 written \in SUBSET EngineFiles(base) :
                LET path == process_video_with_cpp(TRUE, returncode, stdout)
                IN  /\ req' = [req EXCEPT ![r] =
                                  [q EXCEPT !.started = TRUE, !.returncode = returncode,
                                            !.stdout = stdout, !.processed_video_path = path,
                                            !.written = written, !.pc = "responded",
                                            !.response = ProcessedResponse(path)]]
                    /\ fs' = WriteAll(fs, written, r)
    /\ UNCHANGED <<namer, cleaner, twin>>

NextConc ==
    \E r \in ConcReqs :
        ConcIndex(r) \/ ConcFetch(r) \/ ConcCheck(r) \/ ConcRename(r) \/ ConcProcess(r)
        \/ Return(r)

SpecConc == Init /\ [][NextConc]_vars


TitleKnown(r) == req[r].title # None

\* C14: nothing makes a request wait for the other: a request that has entered index() can
\* start its fetch in every state, also while the other request is between its fetch and
\* its answer; and the engine of a request reads a file written by the other request only
\* when the two resolve to the same base name.
C14_NoMutualExclusionOnSourceFile ==
    \A r \in ConcReqs :
        /\ req[r].pc = "download" => ENABLED ConcFetch(r)
        /\ \A q \in ConcReqs \ {r} :
             (req[r].pc = "responded" /\ req[r].read = q /\ TitleKnown(q)) =>
                 sanitize(req[q].title) = sanitize(req[r].title)

\* the engine of one request was invoked on a source file that holds what the other
\* request's fetch wrote, while the other request is still in flight
C14_Witness ==
    \E r \in ConcReqs : \E q \in ConcReqs \ {r} :
        /\ req[r].pc = "responded" /\ req[r].proc_calls = 1 /\ req[r].read = q
        /\ req[q].pc \in {"check", "rename", "process"}
        /\ sanitize(req[q].title) = sanitize(req[r].title)

\* every path a request with this title may touch
ArtifactPaths(r) ==
    CanonicalPaths(sanitize(req[r].title)) \cup {req[r].title \o <<e>> : e \in Containers}

\* the files a request has in the folder at its position when no other request runs
AloneFiles(r) ==
    LET out == req[r].title \o <<req[r].ext>>
    IN  IF req[r].pc \in {"check", "rename"} THEN {out}
        ELSE (IF req[r].ext = ".webm" THEN {renamed_video_file(req[r].title)} ELSE {out})
             \cup req[r].written

\* what a request sees and answers when no other request runs
AloneOutcome(r) ==
    /\ req[r].pc \in {"rename", "process", "responded"} =>
           req[r].merged = (IF req[r].ext = ".webm" THEN "found" ELSE "missing")
    /\ req[r].pc = "responded" =>
           /\ req[r].read = (IF req[r].ext = ".webm" THEN r ELSE 0)
           /\ req[r].response =
                  ProcessedResponse(process_video_with_cpp(req[r].started, req[r].returncode,
                                                           req[r].stdout))

NoInterference(r) ==
    /\ \A p \in ArtifactPaths(r) \cup AloneFiles(r) :
           /\ Exists(fs, p) <=> p \in AloneFiles(r)
           /\ Exists(fs, p) => fs[p] = r
    /\ AloneOutcome(r)

====
